---- MODULE Spec2Model ----
(***************************************************************************)
(* anni-fetch: git protocol v2 pkt-line codec (src/src/io.rs), request     *)
(* builder and response iterator (src/src/client.rs) and PACK decoder      *)
(* (src/src/pack.rs).                                                      *)
(*                                                                         *)
(* Bytes are integers 0..255, byte strings are sequences of bytes.  A      *)
(* reader is a byte string plus a cursor counting the bytes consumed.      *)
(***************************************************************************)
EXTENDS Integers, Sequences, FiniteSets, TLC

VARIABLES
    frames,             \* the frames the response bytes were laid out from
    inner,              \* bytes behind the reader (PktIter.inner / the R of read_pktline)
    cursor,             \* bytes of inner consumed so far
    calls,              \* number of read_pktline calls made on the reader
    ret,                \* what the last direct read_pktline call returned
    is_data,            \* PktIter.is_data
    yielded,            \* the messages PktIter::next has returned as Some(..)
    iterState,          \* "running" | "ended" (next returned None) | "panicked"
    auto_packet,        \* the argument RequestBuilder::new was called with
    rb_inner,           \* RequestBuilder.inner: the body written so far
    delimeter_written,  \* RequestBuilder.delimeter_written
    flush_written,      \* RequestBuilder.flush_written
    rbState,            \* "building" | "built" (build returned rb_inner) | "panicked"
    ops,                \* the builder calls made so far, in order
    pack,               \* the pack file behind the reader of Pack::from_reader
    reader_pos,         \* cursor of that reader
    pc,                 \* where from_reader is: "start" | "entry" | "read" | "drain" |
                        \*   "tail" | "ok" | "err" | "panic"
    version,            \* local version
    objects,            \* local objects: the declared object count
    offset,             \* local offset
    done,               \* iterations of `for _ in 0..objects` completed
    entry,              \* locals of the current iteration: object_type,
                        \*   decompressed_length, object_size, compressed_length, data
    input_buf,          \* input_buf.len()
    output_buf,         \* output_buf.len()
    state,              \* the InflateState
    result,             \* local result: hash -> Object
    offsets,            \* local offsets: offset -> hash
    sha1,               \* the sha1 field of the Pack returned (<<>> while none is)
    outcome             \* what from_reader returned: "none" | "Ok" | an UnpackError

ioVars   == <<frames, inner, cursor, calls, ret>>
iterVars == <<is_data, yielded, iterState>>
rbVars   == <<auto_packet, rb_inner, delimeter_written, flush_written, rbState, ops>>
packVars == <<pack, reader_pos, pc, version, objects, offset, done, entry,
              input_buf, output_buf, state, result, offsets, sha1, outcome>>
vars     == <<ioVars, iterVars, rbVars, packVars>>

(***************************************************************************)
(* Bounds of the model.                                                    *)
(***************************************************************************)
MaxFrames == 3
MaxOps == 3
MaxObjects == 2
MaxWrites == 2
\* continuation bytes of the longest entry header vint_from_reader is given
MaxCont == 10

(***************************************************************************)
(* Byte-string helpers.                                                    *)
(***************************************************************************)
Min(a, b) == IF a < b THEN a ELSE b

\* s[from+1 .. to] with 0-based half-open bounds, as a Rust slice s[from..to]
Slice(s, from, to) == [i \in 1..(to - from) |-> s[from + i]]

RECURSIVE Concat(_)
Concat(ss) == IF ss = <<>> THEN <<>> ELSE Head(ss) \o Concat(Tail(ss))

\* "packfile\n"
PACKFILE_LF == <<112, 97, 99, 107, 102, 105, 108, 101, 10>>

\* one lowercase hex digit, as format!("{:x}") prints it
HexDigit(d) == IF d < 10 THEN 48 + d ELSE 87 + d

RECURSIVE HexStr(_)
HexStr(n) == IF n < 16 THEN <<HexDigit(n)>>
             ELSE HexStr(n \div 16) \o <<HexDigit(n % 16)>>

\* format!("{:04x}", n): at least four digits, zero padded, more when n > 0xffff
Fmt04x(n) ==
    LET h == HexStr(n)
    IN  IF Len(h) >= 4 THEN h ELSE [i \in 1..(4 - Len(h)) |-> 48] \o h

\* value of one character in radix 16, -1 when it is no digit
HexVal(c) ==
    IF c >= 48 /\ c <= 57 THEN c - 48
    ELSE IF c >= 97 /\ c <= 102 THEN c - 87
    ELSE IF c >= 65 /\ c <= 70 THEN c - 55
    ELSE -1

RECURSIVE DigitsVal(_)
\* value of a digit string, -1 when empty or when a character is no digit
DigitsVal(s) ==
    IF s = <<>> THEN -1
    ELSE LET d == HexVal(s[Len(s)])
         IN  IF d < 0 THEN -1
             ELSE IF Len(s) = 1 THEN d
             ELSE LET r == DigitsVal(SubSeq(s, 1, Len(s) - 1))
                  IN  IF r < 0 THEN -1 ELSE 16 * r + d

\* usize::from_str_radix(String::from_utf8_lossy(next), 16): an optional
\* leading '+', then hex digits of either case; -1 stands for Err.  A byte
\* >= 0x80 decodes to no ASCII character, so it is no digit either.
FromStrRadix16(s) ==
    IF s # <<>> /\ s[1] = 43 THEN DigitsVal(Tail(s)) ELSE DigitsVal(s)

(***************************************************************************)
(* src/src/io.rs                                                           *)
(***************************************************************************)
\* take_sized(reader, len): the next min(len, remaining) bytes and their count
take_sized(bytes, cur, len) ==
    LET got == Min(len, Len(bytes) - cur)
    IN  [data |-> Slice(bytes, cur, cur + got), got |-> got]

EOF_LEN == 65536

\* read_len: 0x10000 at end of stream, else the parsed prefix; a prefix that
\* is no hex number makes the unwrap panic (res = "panic")
read_len(bytes, cur) ==
    LET t == take_sized(bytes, cur, 4)
    IN  IF t.got # 4
        THEN [res |-> "ok", len |-> EOF_LEN, cursor |-> cur + t.got]
        ELSE LET v == FromStrRadix16(t.data)
             IN  IF v < 0
                 THEN [res |-> "panic", len |-> 0, cursor |-> cur + 4]
                 ELSE [res |-> "ok", len |-> v, cursor |-> cur + 4]

\* variant of SentinelData: a sentinel carries no payload
SentinelData_Empty(len) == <<>>

\* the payload read_pktline returns for a prefix below 4
SentinelData(len) == Fmt04x(len)

\* read_pktline: (data, len) and the reader's new cursor
read_pktline(bytes, cur) ==
    LET l == read_len(bytes, cur)
    IN  IF l.res = "panic"
        THEN [res |-> "panic", data |-> <<>>, len |-> 0, cursor |-> l.cursor]
        ELSE IF l.len = EOF_LEN
        THEN [res |-> "ok", data |-> <<>>, len |-> 0, cursor |-> l.cursor]
        ELSE IF l.len >= 4
        THEN LET t == take_sized(bytes, l.cursor, l.len - 4)
             IN  [res |-> "ok", data |-> t.data, len |-> l.len,
                  cursor |-> l.cursor + t.got]
        ELSE [res |-> "ok", data |-> SentinelData(l.len), len |-> l.len,
              cursor |-> l.cursor]

\* variant of write_pktline: the LF is left out
write_pktline_NoLf(data) == Fmt04x(Len(data) + 1 + 4) \o data

\* write_pktline(writer, data): the bytes appended
write_pktline(data) == Fmt04x(Len(data) + 1 + 4) \o data \o <<10>>

\* variant of write_pktline_nolf: the prefix counts the payload only
write_pktline_nolf_PayloadLen(data) == Fmt04x(Len(data)) \o data

\* write_pktline_nolf(writer, data)
write_pktline_nolf(data) == Fmt04x(Len(data) + 4) \o data

\* write_packet(writer, n)
write_packet(n) == Fmt04x(n)

(***************************************************************************)
(* src/src/client.rs: Message and PktIter                                  *)
(***************************************************************************)
Msg(t, data) == [t |-> t, data |-> data]

\* String::from_utf8_lossy on bytes: ASCII is kept; a byte >= 0x80 that is
\* part of no valid sequence becomes U+FFFD (65533)
Utf8Lossy(s) == [i \in 1..Len(s) |-> IF s[i] < 128 THEN s[i] ELSE 65533]

IsWhite(c) == c \in {9, 10, 11, 12, 13, 32}

RECURSIVE TrimStart(_)
TrimStart(s) == IF s # <<>> /\ IsWhite(s[1]) THEN TrimStart(Tail(s)) ELSE s

RECURSIVE TrimEnd(_)
TrimEnd(s) == IF s # <<>> /\ IsWhite(s[Len(s)])
              THEN TrimEnd(SubSeq(s, 1, Len(s) - 1)) ELSE s

\* str::trim
Trim(s) == TrimEnd(TrimStart(s))

\* variant of PktIterNew: the iterator starts in side-band mode
PktIterNew_InSideBand == TRUE

\* PktIter::new: is_data starts false
PktIterNew == FALSE

\* variant of SideBand: the channel byte is left in the PackData payload
SideBand_KeepChannelByte(data) ==
    IF data = <<>> THEN [out |-> "panic", msg |-> Msg("None", <<>>)]
    ELSE IF data[1] = 1 THEN [out |-> "some", msg |-> Msg("PackData", data)]
    ELSE IF data[1] = 2
    THEN [out |-> "some", msg |-> Msg("PackProgress", Trim(Utf8Lossy(Tail(data))))]
    ELSE IF data[1] = 3
    THEN [out |-> "some", msg |-> Msg("PackError", Trim(Utf8Lossy(Tail(data))))]
    ELSE [out |-> "panic", msg |-> Msg("None", <<>>)]

\* variant of SideBand: the last arm passes the frame on as a Normal message
SideBand_OtherIsNormal(data) ==
    IF data = <<>> THEN [out |-> "panic", msg |-> Msg("None", <<>>)]
    ELSE IF data[1] = 1 THEN [out |-> "some", msg |-> Msg("PackData", Tail(data))]
    ELSE IF data[1] = 2
    THEN [out |-> "some", msg |-> Msg("PackProgress", Trim(Utf8Lossy(Tail(data))))]
    ELSE IF data[1] = 3
    THEN [out |-> "some", msg |-> Msg("PackError", Trim(Utf8Lossy(Tail(data))))]
    ELSE [out |-> "some", msg |-> Msg("Normal", data)]

\* the side-band branch of PktIter::next (match data[0]); "panic" is the
\* index out of bounds on an empty payload or the unreachable!() arm
SideBand(data) ==
    IF data = <<>> THEN [out |-> "panic", msg |-> Msg("None", <<>>)]
    ELSE IF data[1] = 1 THEN [out |-> "some", msg |-> Msg("PackData", Tail(data))]
    ELSE IF data[1] = 2
    THEN [out |-> "some", msg |-> Msg("PackProgress", Trim(Utf8Lossy(Tail(data))))]
    ELSE IF data[1] = 3
    THEN [out |-> "some", msg |-> Msg("PackError", Trim(Utf8Lossy(Tail(data))))]
    ELSE [out |-> "panic", msg |-> Msg("None", <<>>)]

\* variant of ByLength: no arm for length 2
ByLength_NoResponseEnd(data, len) ==
    IF len = 0 THEN Msg("Flush", <<>>)
    ELSE IF len = 1 THEN Msg("Delimeter", <<>>)
    ELSE Msg("Normal", data)

\* the last arm of PktIter::next: the message for a frame by its length
ByLength(data, len) ==
    IF len = 0 THEN Msg("Flush", <<>>)
    ELSE IF len = 1 THEN Msg("Delimeter", <<>>)
    ELSE IF len = 2 THEN Msg("ResponseEnd", <<>>)
    ELSE Msg("Normal", data)

\* variant of Classify: length 0 alone ends the iteration (a Flush frame too)
Classify_NoneOnZeroLen(data, len, isd) ==
    IF len = 0
    THEN [out |-> "none", msg |-> Msg("None", <<>>), is_data |-> isd]
    ELSE IF len > 0 /\ isd
    THEN LET sb == SideBand(data)
         IN  [out |-> sb.out, msg |-> sb.msg, is_data |-> isd]
    ELSE IF data = PACKFILE_LF
    THEN [out |-> "some", msg |-> Msg("PackStart", <<>>), is_data |-> TRUE]
    ELSE [out |-> "some", msg |-> ByLength(data, len), is_data |-> isd]

\* variant of Classify: the packfile test comes before the side-band test
Classify_PackfileFirst(data, len, isd) ==
    IF len = 0 /\ Len(data) = 0
    THEN [out |-> "none", msg |-> Msg("None", <<>>), is_data |-> isd]
    ELSE IF data = PACKFILE_LF
    THEN [out |-> "some", msg |-> Msg("PackStart", <<>>), is_data |-> TRUE]
    ELSE IF len > 0 /\ isd
    THEN LET sb == SideBand(data)
         IN  [out |-> sb.out, msg |-> sb.msg, is_data |-> isd]
    ELSE [out |-> "some", msg |-> ByLength(data, len), is_data |-> isd]

\* the if/else chain of PktIter::next on what read_pktline returned
Classify(data, len, isd) ==
    IF len = 0 /\ Len(data) = 0
    THEN [out |-> "none", msg |-> Msg("None", <<>>), is_data |-> isd]
    ELSE IF len > 0 /\ isd
    THEN LET sb == SideBand(data)
         IN  [out |-> sb.out, msg |-> sb.msg, is_data |-> isd]
    ELSE IF data = PACKFILE_LF
    THEN [out |-> "some", msg |-> Msg("PackStart", <<>>), is_data |-> TRUE]
    ELSE [out |-> "some", msg |-> ByLength(data, len), is_data |-> isd]

(***************************************************************************)
(* Response streams: a sequence of frames laid out on the wire.            *)
(***************************************************************************)
Frame(k, prefix, payload) == [k |-> k, prefix |-> prefix, payload |-> payload]

FlushF  == Frame("flush",  <<48, 48, 48, 48>>, <<>>)
DelimF  == Frame("delim",  <<48, 48, 48, 49>>, <<>>)
RendF   == Frame("rend",   <<48, 48, 48, 50>>, <<>>)
Len3F   == Frame("len3",   <<48, 48, 48, 51>>, <<>>)
EmptyF  == Frame("empty",  <<48, 48, 48, 52>>, <<>>)
NormalF == Frame("normal", <<48, 48, 48, 54>>, <<97, 10>>)
PackF   == Frame("pack",   <<48, 48, 48, 100>>, PACKFILE_LF)
Ch1aF   == Frame("ch1",    <<48, 48, 48, 54>>, <<1, 80>>)
Ch1bF   == Frame("ch1",    <<48, 48, 48, 55>>, <<1, 75, 1>>)
Ch2F    == Frame("ch2",    <<48, 48, 48, 56>>, <<2, 32, 104, 10>>)
Ch3F    == Frame("ch3",    <<48, 48, 48, 54>>, <<3, 101>>)
BadHexF == Frame("badhex", <<48, 48, 122, 122>>, <<>>)
\* frames cut by the end of the stream: a payload shorter than declared,
\* and a length prefix of two bytes
CutCh1F == Frame("ch1",    <<48, 48, 48, 57>>, <<1, 80>>)
ShortF  == Frame("short",  <<48, 48>>, <<>>)

BodyFrames == {FlushF, DelimF, RendF, Len3F, EmptyF, NormalF, PackF,
               Ch1aF, Ch1bF, Ch2F, Ch3F, BadHexF}
TailFrames == {CutCh1F, ShortF}

\* every stream of at most MaxFrames frames; a cut frame can only be the last
FrameSeqs ==
    UNION {[1..n -> BodyFrames] : n \in 0..MaxFrames}
    \cup UNION {{Append(s, t) : s \in [1..n -> BodyFrames], t \in TailFrames} :
                n \in 0..(MaxFrames - 1)}

WireOf(f) == f.prefix \o f.payload
Wire(fs) == Concat([i \in 1..Len(fs) |-> WireOf(fs[i])])

NoRet == [res |-> "none", data |-> <<>>, len |-> 0]

\* no RequestBuilder exists
NoBuilder ==
    /\ auto_packet = FALSE
    /\ rb_inner = <<>>
    /\ delimeter_written = FALSE
    /\ flush_written = FALSE
    /\ rbState = "idle"
    /\ ops = <<>>

(***************************************************************************)
(* src/src/pack.rs: the pack file read by Pack::from_reader.               *)
(*                                                                         *)
(* A pack is laid out as the 12 header bytes, then per object its entry    *)
(* header (the size varint), its suffix (OFS_DELTA distance or REF_DELTA   *)
(* hash) and its zlib stream, then the 20 checksum bytes.  Header and      *)
(* suffix are bytes; a zlib stream is described by its compressed length   *)
(* clen, the length dlen and identity (content) of what it inflates to,    *)
(* and whether it is corrupt (bad).                                        *)
(***************************************************************************)
INPUT_BUFFER_SIZE == 8 * 1024
OUTPUT_BUFFER_SIZE == 16 * 1024
INPUT_RESIZE == 2048
OUTPUT_RESIZE == 4096

\* size of the inflater's window (TINFL_LZ_DICT_SIZE)
WINDOW == 32768

Max(a, b) == IF a > b THEN a ELSE b

EntryT(head, suffix, clen, dlen, content, bad) ==
    [head |-> head, suffix |-> suffix, clen |-> clen, dlen |-> dlen,
     content |-> content, bad |-> bad]

REF_HASH == [i \in 1..20 |-> 170]

\* blob of 8 bytes, as the third object of tests::test_unpack
BlobE    == EntryT(<<56>>, <<>>, 16, 8, "b", FALSE)
\* commit of 165 bytes in 117, as the first object of tests::test_unpack
CommitE  == EntryT(<<149, 10>>, <<>>, 117, 165, "c", FALSE)
\* blob of 40000 bytes in 9000: longer than every buffer and the window
BigE     == EntryT(<<176, 196, 19>>, <<>>, 9000, 40000, "B", FALSE)
\* OFS_DELTA with a two-byte distance, REF_DELTA with its 20-byte hash
OfsE     == EntryT(<<104>>, <<129, 5>>, 16, 8, "o", FALSE)
RefE     == EntryT(<<120>>, REF_HASH, 16, 8, "r", FALSE)
\* a tree with the bytes of BlobE, and a tag
TreeE    == EntryT(<<40>>, <<>>, 16, 8, "b", FALSE)
TagE     == EntryT(<<72>>, <<>>, 16, 8, "g", FALSE)
\* kind codes 5 and 0
Kind5E   == EntryT(<<88>>, <<>>, 16, 8, "b", FALSE)
Kind0E   == EntryT(<<8>>, <<>>, 16, 8, "b", FALSE)
\* header declares 9 / 7 bytes, the stream inflates to 8
ShortE   == EntryT(<<57>>, <<>>, 16, 8, "b", FALSE)
LongE    == EntryT(<<55>>, <<>>, 16, 8, "b", FALSE)
\* a stream the inflater rejects
CorruptE == EntryT(<<56>>, <<>>, 16, 8, "b", TRUE)

EntryTemplates == {BlobE, CommitE, TreeE, TagE, BigE, OfsE, RefE, Kind5E, Kind0E,
                   ShortE, LongE, CorruptE}

\* bytes missing at the end of the file (a truncated pack)
Missing == {0, 10, 25}

Packs ==
    [entries : UNION {[1..n -> EntryTemplates] : n \in 0..MaxObjects},
     magic : {<<80, 65, 67, 75>>, <<80, 65, 67, 88>>},
     sumOk : BOOLEAN,
     missing : Missing]

EntryLen(e) == Len(e.head) + Len(e.suffix) + e.clen

RECURSIVE SumLen(_)
SumLen(es) == IF es = <<>> THEN 0 ELSE EntryLen(Head(es)) + SumLen(Tail(es))

\* where entry i starts in p; entry Len+1 is the checksum
LayoutStart(p, i) == 12 + SumLen(SubSeq(p.entries, 1, i - 1))
ObjectsEnd(p) == LayoutStart(p, Len(p.entries) + 1)
SrcLen(p) == Max(0, ObjectsEnd(p) + 20 - p.missing)

U32BE(n) == <<0, 0, n \div 256, n % 256>>
HeaderBytes(p) == p.magic \o U32BE(2) \o U32BE(Len(p.entries))

RECURSIVE ByteIn(_, _)
\* the byte at distance at from the start of entries es (120 inside a zlib
\* stream, 0 in the checksum: no decoding step looks at those)
ByteIn(es, at) ==
    IF es = <<>> THEN 0
    ELSE LET e == Head(es)
             h == e.head \o e.suffix
         IN  IF at < Len(h) THEN h[at + 1]
             ELSE IF at < EntryLen(e) THEN 120
             ELSE ByteIn(Tail(es), at - EntryLen(e))

ByteAt(p, at) == IF at < 12 THEN HeaderBytes(p)[at + 1] ELSE ByteIn(p.entries, at - 12)

\* u8(reader): the byte at the cursor, -1 for the read_exact error at the end
u8(p, at) == IF at < SrcLen(p) THEN ByteAt(p, at) ELSE -1

\* Read::read into a buffer of cap bytes: the count a Cursor returns
ReadCount(p, at, cap) == Max(0, Min(cap, SrcLen(p) - at))

\* usize of the 64-bit targets the crate is built for
USIZE_BITS == 64

\* a usize as the set of its one-bits; | is the union, (x << s) moves the bits up by
\* s and drops those at USIZE_BITS and above
BitsOf(x) == {b \in 0..7 : (x \div (2 ^ b)) % 2 = 1}

Shl(x, s) == {b + s : b \in BitsOf(x)} \cap (0..(USIZE_BITS - 1))

RECURSIVE UsizeValue(_)
\* the number a bit set stands for
UsizeValue(bits) ==
    IF bits = {} THEN 0
    ELSE LET b == CHOOSE x \in bits : TRUE IN (2 ^ b) + UsizeValue(bits \ {b})

\* the shift of an unchecked build is taken modulo the width
ShiftStep(shift) == shift % USIZE_BITS

RECURSIVE VintLoop(_, _, _, _, _, _, _)
\* the while loop of vint_from_reader; checks: the build has overflow checks, and
\* `<< shift` with shift >= USIZE_BITS panics instead of wrapping the shift
VintLoop(p, at, n, bits, shift, used, checks) ==
    IF (n \div 128) % 2 = 0
    THEN [res |-> "ok", bits |-> bits, used |-> used]
    ELSE LET m == u8(p, at)
         IN  IF m < 0 THEN [res |-> "io", bits |-> {}, used |-> used]
             ELSE IF checks /\ shift >= USIZE_BITS
             THEN [res |-> "shl_overflow", bits |-> {}, used |-> used]
             ELSE VintLoop(p, at + 1, m, bits \cup Shl(m % 128, ShiftStep(shift)),
                           shift + 7, used + 1, checks)

\* vint_from_reader: (object_type, length, bytes_used), the length as its bits
vint_from_reader(p, at, checks) ==
    LET n == u8(p, at)
    IN  IF n < 0 THEN [res |-> "io", object_type |-> 0, bits |-> {}, used |-> 0]
        ELSE LET r == VintLoop(p, at + 1, n, BitsOf(n % 16), 4, 1, checks)
             IN  [res |-> r.res, object_type |-> (n \div 16) % 8,
                  bits |-> r.bits, used |-> r.used]

RECURSIVE OfsLoop(_, _, _, _, _)
OfsLoop(p, at, n, distance, used) ==
    IF (n \div 128) % 2 = 0
    THEN [res |-> "ok", distance |-> distance, used |-> used]
    ELSE LET m == u8(p, at)
         IN  IF m < 0 THEN [res |-> "io", distance |-> 0, used |-> used]
             ELSE OfsLoop(p, at + 1, m, (distance + 1) * 128 + (m % 128), used + 1)

\* ofs_from_reader: (distance, bytes_used)
ofs_from_reader(p, at) ==
    LET n == u8(p, at)
    IN  IF n < 0 THEN [res |-> "io", distance |-> 0, used |-> 0]
        ELSE OfsLoop(p, at + 1, n, n % 128, 1)

\* variant of ObjectTypeOf: kind code 5 is read as a Blob
ObjectTypeOf_FiveIsBlob(p, at, code) ==
    IF code = 1 THEN [res |-> "ok", t |-> <<"Commit">>, used |-> 0]
    ELSE IF code = 2 THEN [res |-> "ok", t |-> <<"Tree">>, used |-> 0]
    ELSE IF code \in {3, 5} THEN [res |-> "ok", t |-> <<"Blob">>, used |-> 0]
    ELSE IF code = 4 THEN [res |-> "ok", t |-> <<"Tag">>, used |-> 0]
    ELSE IF code = 6
    THEN LET o == ofs_from_reader(p, at)
         IN  [res |-> o.res, t |-> <<"OfsDelta", o.distance>>, used |-> o.used]
    ELSE IF code = 7
    THEN IF at + 20 <= SrcLen(p)
         THEN [res |-> "ok", t |-> <<"RefDelta", [i \in 1..20 |-> ByteAt(p, at + i - 1)]>>,
               used |-> 20]
         ELSE [res |-> "io", t |-> <<"RefDelta">>, used |-> 0]
    ELSE [res |-> "InvalidObjectType", t |-> <<"None">>, used |-> 0]

\* the match on the kind code and the suffix it reads: the ObjectType and
\* the bytes added to object_size
ObjectTypeOf(p, at, code) ==
    IF code = 1 THEN [res |-> "ok", t |-> <<"Commit">>, used |-> 0]
    ELSE IF code = 2 THEN [res |-> "ok", t |-> <<"Tree">>, used |-> 0]
    ELSE IF code = 3 THEN [res |-> "ok", t |-> <<"Blob">>, used |-> 0]
    ELSE IF code = 4 THEN [res |-> "ok", t |-> <<"Tag">>, used |-> 0]
    ELSE IF code = 6
    THEN LET o == ofs_from_reader(p, at)
         IN  [res |-> o.res, t |-> <<"OfsDelta", o.distance>>, used |-> o.used]
    ELSE IF code = 7
    THEN IF at + 20 <= SrcLen(p)
         THEN [res |-> "ok", t |-> <<"RefDelta", [i \in 1..20 |-> ByteAt(p, at + i - 1)]>>,
               used |-> 20]
         ELSE [res |-> "io", t |-> <<"RefDelta">>, used |-> 0]
    ELSE [res |-> "InvalidObjectType", t |-> <<"None">>, used |-> 0]

\* variant of KindName: every object is hashed as a blob
KindName_AllBlob(t) == "blob"

\* the prefix git_sha1 is called with
KindName(t) ==
    IF t[1] = "Commit" THEN "commit"
    ELSE IF t[1] = "Tree" THEN "tree"
    ELSE IF t[1] = "Blob" THEN "blob"
    ELSE IF t[1] = "Tag" THEN "tag"
    ELSE IF t[1] = "OfsDelta" THEN "o"
    ELSE "r"

RECURSIVE Decimal(_)
\* format!("{}", n)
Decimal(n) == IF n < 10 THEN <<48 + n>> ELSE Decimal(n \div 10) \o <<48 + (n % 10)>>

\* git_sha1(prefix, input): the SHA-1 of what is written to the hasher, kept
\* as those five writes (two hashes are equal iff what was hashed is)
git_sha1(prefix, input) == <<prefix, 32, Decimal(input.len), 0, input>>

(***************************************************************************)
(* The inflater (miniz_oxide::inflate::stream) as Pack::extract_from sees  *)
(* it.  st.zin / st.zdec count the stream bytes consumed / the bytes       *)
(* decoded so far, st.avail the decoded bytes not yet handed out.  How     *)
(* much output a given input decodes to depends on the data: every amount  *)
(* the stream allows is an outcome.                                        *)
(***************************************************************************)
NewState == [zin |-> 0, zdec |-> 0, avail |-> 0, last_status |-> "NeedsMoreInput"]

\* one outcome: k bytes consumed, d decoded, status s, with an output of cap bytes
Outcome(st, k, d, s, cap) ==
    LET w == Min(st.avail + d, cap)
    IN  [consumed |-> k, produced |-> w,
         st |-> [zin |-> st.zin + k, zdec |-> st.zdec + d,
                 avail |-> st.avail + d - w, last_status |-> s]]

\* inflate(state, input[..n], output[..cap], MZFlush::Partial) on stream e
Inflate(e, st, n, cap) ==
    LET rin   == e.clen - st.zin
        rout  == e.dlen - st.zdec
        space == WINDOW - (st.zdec % WINDOW)
    IN  IF st.avail # 0 \/ st.last_status = "Done"
        THEN \* pending output is handed out first; a finished stream stays Done
             {Outcome(st, 0, 0, st.last_status, cap)}
        ELSE IF n = 0 /\ st.last_status = "NeedsMoreInput"
        THEN \* no progress possible (MZError::Buf)
             {Outcome(st, 0, 0, "NeedsMoreInput", cap)}
        ELSE IF e.bad
        THEN {Outcome(st, Min(n, rin), 0, "Failed", cap)}
        ELSE (IF rin <= n /\ rout <= space
              THEN {Outcome(st, rin, rout, "Done", cap)} ELSE {})
             \cup
             (IF rin > n
              THEN {Outcome(st, n, Min(Min(rout, space), f * n), "NeedsMoreInput", cap)
                        : f \in {1, 3}}
              ELSE {})
             \cup
             (IF rout > space /\ n > 0
              THEN {Outcome(st, Min(n, rin - 1) \div 2, space, "HasMoreOutput", cap)}
              ELSE {})

\* variant of Backseek: the reader is left where the block read ended
Backseek_None(consumed, bytes_available) == 0

\* Pack::extract_from: the backseek it returns for the block just inflated
Backseek(consumed, bytes_available) == consumed - bytes_available

(***************************************************************************)
(* Pack::from_reader                                                       *)
(***************************************************************************)
NoEntry == [object_type |-> <<"None">>, decompressed_length |-> 0, object_size |-> 0,
            compressed_length |-> 0, data |-> [len |-> 0, content |-> ""]]

NoPack ==
    /\ pack = [entries |-> <<>>, magic |-> <<>>, sumOk |-> FALSE, missing |-> 0]
    /\ reader_pos = 0
    /\ pc = "idle"
    /\ version = 0
    /\ objects = 0
    /\ offset = 0
    /\ done = 0
    /\ entry = NoEntry
    /\ input_buf = 0
    /\ output_buf = 0
    /\ state = NewState
    /\ result = <<>>
    /\ offsets = <<>>
    /\ sha1 = <<>>
    /\ outcome = "none"

InitPack ==
    /\ frames = <<>>
    /\ inner = <<>>
    /\ cursor = 0
    /\ calls = 0
    /\ ret = NoRet
    /\ is_data = FALSE
    /\ yielded = <<>>
    /\ iterState = "idle"
    /\ NoBuilder
    /\ pack \in Packs
    /\ reader_pos = 0
    /\ pc = "start"
    /\ version = 0
    /\ objects = 0
    /\ offset = 0
    /\ done = 0
    /\ entry = NoEntry
    /\ input_buf = 0
    /\ output_buf = 0
    /\ state = NewState
    /\ result = <<>>
    /\ offsets = <<>>
    /\ sha1 = <<>>
    /\ outcome = "none"

Fail(e, to) ==
    /\ pc' = to
    /\ outcome' = e

\* the stream entry `done + 1` of the pack holds (the one being inflated)
CurStream == pack.entries[done + 1]

\* m with key k set to v (HashMap::insert)
Insert(m, k, v) == [x \in (DOMAIN m) \cup {k} |-> IF x = k THEN v ELSE m[x]]

U32(a, b, c, d) == ((a * 256 + b) * 256 + c) * 256 + d

\* variant of AssertEq: the assertion is compiled out
AssertEq_Skipped(left, right) == TRUE

\* assert_eq!(left, right): whether execution continues past it
AssertEq(left, right) == left = right

\* lines 94-104: token, version, object count, buffers
ReadHeader ==
    /\ pc = "start"
    /\ IF SrcLen(pack) < 4
       THEN Fail("IOError", "err") /\ UNCHANGED <<reader_pos, version, objects>>
       ELSE IF [i \in 1..4 |-> ByteAt(pack, i - 1)] # <<80, 65, 67, 75>>
       THEN Fail("IOError", "err") /\ reader_pos' = 4 /\ UNCHANGED <<version, objects>>
       ELSE IF SrcLen(pack) < 12
       THEN Fail("IOError", "err") /\ UNCHANGED <<reader_pos, version, objects>>
       ELSE /\ version' = U32(ByteAt(pack, 4), ByteAt(pack, 5), ByteAt(pack, 6),
                              ByteAt(pack, 7))
            /\ objects' = U32(ByteAt(pack, 8), ByteAt(pack, 9), ByteAt(pack, 10),
                              ByteAt(pack, 11))
            /\ reader_pos' = 12
            /\ pc' = "entry"
            /\ UNCHANGED outcome
    /\ offset' = 12
    /\ input_buf' = INPUT_BUFFER_SIZE
    /\ output_buf' = OUTPUT_BUFFER_SIZE
    /\ state' = NewState
    /\ UNCHANGED <<pack, done, entry, result, offsets, sha1>>
    /\ UNCHANGED <<ioVars, iterVars, rbVars>>

\* lines 108-129: the entry header of the next object
ObjectHeader ==
    /\ pc = "entry"
    /\ done < objects
    /\ \E checks \in BOOLEAN :
       \E v \in {vint_from_reader(pack, reader_pos, checks)} :
       \E t \in {ObjectTypeOf(pack, reader_pos + v.used, v.object_type)} :
           IF v.res = "io" THEN Fail("IOError", "err") /\ UNCHANGED <<reader_pos, entry>>
           ELSE IF v.res = "shl_overflow"
           THEN Fail("shl_overflow", "panic") /\ UNCHANGED <<reader_pos, entry>>
           ELSE IF t.res = "io" THEN Fail("IOError", "err") /\ UNCHANGED <<reader_pos, entry>>
           ELSE IF t.res = "InvalidObjectType"
           THEN Fail("InvalidObjectType", "err") /\ UNCHANGED <<reader_pos, entry>>
           ELSE /\ reader_pos' = reader_pos + v.used + t.used
                /\ entry' = [object_type |-> t.t,
                             decompressed_length |-> UsizeValue(v.bits),
                             object_size |-> v.used + t.used,
                             compressed_length |-> 0,
                             data |-> [len |-> 0, content |-> CurStream.content]]
                /\ pc' = "read"
                /\ UNCHANGED outcome
    /\ UNCHANGED <<pack, version, objects, offset, done, input_buf, output_buf, state,
                   result, offsets, sha1>>
    /\ UNCHANGED <<ioVars, iterVars, rbVars>>

\* lines 131-173: one turn of the inflate loop up to its match
InflateStep ==
    /\ pc = "read"
    /\ LET bytes_available == ReadCount(pack, reader_pos, input_buf)
       IN  \E r \in Inflate(CurStream, state, bytes_available, output_buf) :
              /\ entry' = [entry EXCEPT !.compressed_length = @ + r.consumed,
                                        !.data.len = @ + r.produced]
              /\ reader_pos' = reader_pos + bytes_available
                                  + Backseek(r.consumed, bytes_available)
              /\ state' = r.st
              /\ IF r.st.last_status = "NeedsMoreInput" THEN pc' = "read" /\ UNCHANGED outcome
                 ELSE IF r.st.last_status = "HasMoreOutput"
                 THEN pc' = "drain" /\ UNCHANGED outcome
                 ELSE IF r.st.last_status = "Done" THEN pc' = "tail" /\ UNCHANGED outcome
                 ELSE Fail("InvalidTINFLStatus", "err")
    /\ input_buf' = INPUT_RESIZE
    /\ output_buf' = OUTPUT_RESIZE
    /\ UNCHANGED <<pack, version, objects, offset, done, result, offsets, sha1>>
    /\ UNCHANGED <<ioVars, iterVars, rbVars>>

\* lines 149-157: one turn of the drain loop of the HasMoreOutput arm
DrainStep ==
    /\ pc = "drain"
    /\ \E r \in Inflate(CurStream, state, 0, output_buf) :
          /\ entry' = [entry EXCEPT !.data.len = @ + r.produced]
          /\ state' = r.st
          /\ pc' = IF r.produced < OUTPUT_BUFFER_SIZE THEN "read" ELSE "drain"
    /\ output_buf' = OUTPUT_RESIZE
    /\ UNCHANGED <<pack, reader_pos, version, objects, offset, done, input_buf, result,
                   offsets, sha1, outcome>>
    /\ UNCHANGED <<ioVars, iterVars, rbVars>>

\* lines 163-167: one turn of the drain loop of the Done arm
TailStep ==
    /\ pc = "tail"
    /\ entry.data.len < entry.decompressed_length
    /\ \E r \in Inflate(CurStream, state, 0, output_buf) :
          /\ entry' = [entry EXCEPT !.data.len = @ + r.produced]
          /\ state' = r.st
    /\ output_buf' = OUTPUT_RESIZE
    /\ UNCHANGED <<pack, reader_pos, pc, version, objects, offset, done, input_buf,
                   result, offsets, sha1, outcome>>
    /\ UNCHANGED <<ioVars, iterVars, rbVars>>

\* lines 168-194: the assert, the reset, the hash and the two inserts
FinishObject ==
    /\ pc = "tail"
    /\ entry.data.len >= entry.decompressed_length
    /\ IF ~AssertEq(entry.data.len, entry.decompressed_length)
       THEN /\ Fail("assert_eq", "panic")
            /\ UNCHANGED <<state, result, offsets, offset, done>>
       ELSE LET object_size == entry.object_size + entry.compressed_length
                hash == git_sha1(KindName(entry.object_type), entry.data)
                object == [object_type |-> entry.object_type,
                           data |-> entry.data,
                           compressed_length |-> entry.compressed_length,
                           offset |-> offset]
            IN  /\ state' = NewState
                /\ offsets' = Insert(offsets, offset, hash)
                /\ result' = Insert(result, hash, object)
                /\ offset' = offset + object_size
                /\ done' = done + 1
                /\ pc' = "entry"
                /\ UNCHANGED outcome
    /\ UNCHANGED <<pack, reader_pos, version, objects, entry, input_buf, output_buf, sha1>>
    /\ UNCHANGED <<ioVars, iterVars, rbVars>>

\* SHA-1 of the first n bytes of the file of p, kept as what was hashed
PackSha1(p, n) == <<"sha1", n>>

\* the 20 bytes of the file of p at at: the SHA-1 of all bytes before them
\* when they are the trailer of a pack written correctly, other bytes otherwise
ChecksumAt(p, at) ==
    IF at = ObjectsEnd(p) /\ p.sumOk THEN PackSha1(p, at) ELSE <<"bytes", at>>

\* variant of HashDiffers: the trailer is read and not compared
HashDiffers_Never(hash_result, checksum) == FALSE

\* line 205: hash_result != checksum
HashDiffers(hash_result, checksum) == hash_result # checksum

\* lines 197-217: the checksum over [0, offset) against the 20 bytes after it
Trailer ==
    /\ pc = "entry"
    /\ done >= objects
    /\ LET hashed == Min(offset, SrcLen(pack))
           hash_result == PackSha1(pack, hashed)
           checksum == ChecksumAt(pack, hashed)
       IN  IF hashed + 20 > SrcLen(pack)
           THEN Fail("IOError", "err") /\ reader_pos' = hashed /\ UNCHANGED sha1
           ELSE /\ reader_pos' = hashed + 20
                /\ IF HashDiffers(hash_result, checksum)
                   THEN Fail("InvalidHash", "err") /\ UNCHANGED sha1
                   ELSE Fail("Ok", "ok") /\ sha1' = checksum
    /\ UNCHANGED <<pack, version, objects, offset, done, entry, input_buf, output_buf,
                   state, result, offsets>>
    /\ UNCHANGED <<ioVars, iterVars, rbVars>>

\* Pack::offset(k) on the Pack returned: the object, if any
PackOffset(k) ==
    IF k \in DOMAIN offsets /\ offsets[k] \in DOMAIN result
    THEN [some |-> TRUE, object |-> result[offsets[k]]]
    ELSE [some |-> FALSE, object |-> NoEntry]

NextPack ==
    \/ ReadHeader
    \/ ObjectHeader
    \/ InflateStep
    \/ DrainStep
    \/ TailStep
    \/ FinishObject
    \/ Trailer

SpecPack == InitPack /\ [][NextPack]_vars

\* from_reader is straight-line sequential code: while a step can change the
\* state it is eventually taken
SpecPackLive == InitPack /\ [][NextPack]_vars /\ WF_vars(NextPack)

(***************************************************************************)
(* vint_from_reader on its own, as tests::test_vint calls it               *)
(***************************************************************************)
\* the headers of tests::test_vint
TestHeads == {<<47>>, <<149, 10>>, <<175, 172, 146, 117>>}

\* a first byte, k - 1 continuation bytes with the high bit and a last one without
LongHeads ==
    UNION {{<<first>> \o mid \o <<last>> :
               first \in {159, 176}, mid \in [1..(k - 1) -> {128, 255}],
               last \in {0, 16, 127}} : k \in 1..MaxCont}

VintHeads == TestHeads \cup LongHeads

\* the reader holds the header at offset 12 and ends with it (missing = 20) or
\* one byte before its end (missing = 21)
VintPacks ==
    {[entries |-> <<EntryT(h, <<>>, 0, 0, "b", FALSE)>>, magic |-> <<80, 65, 67, 75>>,
      sumOk |-> TRUE, missing |-> m] : h \in VintHeads, m \in {20, 21}}

InitVint ==
    /\ frames = <<>>
    /\ inner = <<>>
    /\ cursor = 0
    /\ calls = 0
    /\ ret = NoRet
    /\ is_data = FALSE
    /\ yielded = <<>>
    /\ iterState = "idle"
    /\ NoBuilder
    /\ pack \in VintPacks
    /\ reader_pos = 12
    /\ pc = "vint"
    /\ version = 0
    /\ objects = 0
    /\ offset = 0
    /\ done = 0
    /\ entry = NoEntry
    /\ input_buf = 0
    /\ output_buf = 0
    /\ state = NewState
    /\ result = <<>>
    /\ offsets = <<>>
    /\ sha1 = <<>>
    /\ outcome = "none"

\* one call of vint_from_reader; ret is what it returns, the cursor moves by the
\* bytes it read
VintCall ==
    /\ pc = "vint"
    /\ \E checks \in BOOLEAN :
          LET v == vint_from_reader(pack, reader_pos, checks)
          IN  /\ ret' = v
              /\ reader_pos' = reader_pos + v.used
              /\ pc' = IF v.res = "shl_overflow" THEN "panic" ELSE "returned"
    /\ calls' = calls + 1
    /\ UNCHANGED <<frames, inner, cursor>>
    /\ UNCHANGED <<pack, version, objects, offset, done, entry, input_buf, output_buf,
                   state, result, offsets, sha1, outcome>>
    /\ UNCHANGED <<iterVars, rbVars>>

NextVint == VintCall

SpecVint == InitVint /\ [][NextVint]_vars

(***************************************************************************)
(* src/src/client.rs: RequestBuilder                                       *)
(***************************************************************************)
OBJECT_FORMAT == <<111, 98, 106, 101, 99, 116, 45, 102, 111, 114, 109, 97, 116, 61, 115, 104, 97, 49>>
AGENT == <<97, 103, 101, 110, 116, 61, 103, 105, 116, 47, 50, 46, 50, 56, 46, 48>>
COMMAND_EQ == <<99, 111, 109, 109, 97, 110, 100, 61>>
WANT_SP == <<119, 97, 110, 116, 32>>
HAVE_SP == <<104, 97, 118, 101, 32>>

\* inputs of the builder calls
CommandNames == {<<102, 101, 116, 99, 104>>}
CapNames == {<<102, 101, 116, 99, 104>>}
CapValues == {<<>>, <<<<115, 104, 97, 108, 108, 111, 119>>, <<102, 105, 108, 116, 101, 114>>>>}
ArgTexts == {<<100, 111, 110, 101>>}
Hashes == {<<57, 49, 57, 50, 98, 53, 101, 53>>}
PacketKinds == {"Flush", "Delimeter", "ResponseEnd", "Normal", "PackStart"}

RECURSIVE Join(_, _)
\* value.join(sep)
Join(ss, sep) ==
    IF ss = <<>> THEN <<>>
    ELSE IF Len(ss) = 1 THEN ss[1]
    ELSE ss[1] \o sep \o Join(Tail(ss), sep)

\* variant of NewFlag: the flags start as the negation of auto_packet
NewFlag_Negated(auto) == ~auto

\* RequestBuilder::new: the flags each start as auto_packet
NewFlag(auto) == auto

\* variant of packet: ResponseEnd falls into the panicking arm
packet_FlushDelimOnly(kind) ==
    IF kind = "Flush" THEN [res |-> "ok", bytes |-> write_packet(0)]
    ELSE IF kind = "Delimeter" THEN [res |-> "ok", bytes |-> write_packet(1)]
    ELSE [res |-> "panic", bytes |-> <<>>]

\* RequestBuilder::packet: the bytes written, or a panic for another kind
packet(kind) ==
    IF kind = "Flush" THEN [res |-> "ok", bytes |-> write_packet(0)]
    ELSE IF kind = "Delimeter" THEN [res |-> "ok", bytes |-> write_packet(1)]
    ELSE IF kind = "ResponseEnd" THEN [res |-> "ok", bytes |-> write_packet(2)]
    ELSE [res |-> "panic", bytes |-> <<>>]

\* RequestBuilder::argument: the bytes appended for arg
argument(arg) ==
    (IF ~delimeter_written THEN packet("Delimeter").bytes ELSE <<>>)
        \o write_pktline(arg)

Op(name, text) == [op |-> name, text |-> text]

CanCall == rbState = "building" /\ Len(ops) < MaxOps

InitBuilder ==
    /\ frames = <<>>
    /\ inner = <<>>
    /\ cursor = 0
    /\ calls = 0
    /\ ret = NoRet
    /\ is_data = FALSE
    /\ yielded = <<>>
    /\ iterState = "idle"
    /\ auto_packet \in BOOLEAN
    /\ rb_inner = write_pktline(OBJECT_FORMAT) \o write_pktline(AGENT)
    /\ delimeter_written = NewFlag(auto_packet)
    /\ flush_written = NewFlag(auto_packet)
    /\ rbState = "building"
    /\ ops = <<>>
    /\ NoPack

\* RequestBuilder::command
Command ==
    /\ CanCall
    /\ \E name \in CommandNames :
          /\ rb_inner' = rb_inner \o write_pktline(COMMAND_EQ \o name)
          /\ ops' = Append(ops, Op("command", name))
    /\ UNCHANGED <<auto_packet, delimeter_written, flush_written, rbState>>
    /\ UNCHANGED <<ioVars, iterVars, packVars>>

\* RequestBuilder::capability
Capability ==
    /\ CanCall
    /\ \E name \in CapNames, value \in CapValues :
          LET line == IF Len(value) # 0
                      THEN name \o <<61>> \o Join(value, <<32>>)
                      ELSE name
          IN  /\ rb_inner' = rb_inner \o write_pktline(line)
              /\ ops' = Append(ops, Op("capability", line))
    /\ UNCHANGED <<auto_packet, delimeter_written, flush_written, rbState>>
    /\ UNCHANGED <<ioVars, iterVars, packVars>>

\* the body of argument, shared by argument, want and have
CallArgument(name, arg) ==
    /\ rb_inner' = rb_inner \o argument(arg)
    /\ delimeter_written' = TRUE
    /\ ops' = Append(ops, Op(name, arg))
    /\ UNCHANGED <<auto_packet, flush_written, rbState>>
    /\ UNCHANGED <<ioVars, iterVars, packVars>>

\* RequestBuilder::argument
Argument ==
    /\ CanCall
    /\ \E arg \in ArgTexts : CallArgument("argument", arg)

\* RequestBuilder::want
Want ==
    /\ CanCall
    /\ \E hash \in Hashes : CallArgument("want", WANT_SP \o hash)

\* RequestBuilder::have
Have ==
    /\ CanCall
    /\ \E hash \in Hashes : CallArgument("have", HAVE_SP \o hash)

\* RequestBuilder::packet called by the user
Packet ==
    /\ CanCall
    /\ \E kind \in PacketKinds :
          LET w == packet(kind)
          IN  /\ rb_inner' = rb_inner \o w.bytes
              /\ rbState' = IF w.res = "panic" THEN "panicked" ELSE rbState
              /\ ops' = Append(ops, Op("packet", kind))
    /\ UNCHANGED <<auto_packet, delimeter_written, flush_written>>
    /\ UNCHANGED <<ioVars, iterVars, packVars>>

\* RequestBuilder::build
Build ==
    /\ rbState = "building"
    /\ rb_inner' = rb_inner \o (IF ~flush_written THEN packet("Flush").bytes ELSE <<>>)
    /\ flush_written' = TRUE
    /\ rbState' = "built"
    /\ UNCHANGED <<auto_packet, delimeter_written, ops>>
    /\ UNCHANGED <<ioVars, iterVars, packVars>>

NextBuilder ==
    \/ Command
    \/ Capability
    \/ Argument
    \/ Want
    \/ Have
    \/ Packet
    \/ Build

SpecBuilder == InitBuilder /\ [][NextBuilder]_vars

(***************************************************************************)
(* Specification SpecPkt: read_pktline called repeatedly on a reader.      *)
(***************************************************************************)
InitPkt ==
    /\ frames \in FrameSeqs
    /\ inner = Wire(frames)
    /\ cursor = 0
    /\ calls = 0
    /\ ret = NoRet
    /\ is_data = FALSE
    /\ yielded = <<>>
    /\ iterState = "idle"
    /\ NoBuilder
    /\ NoPack

\* one call of read_pktline; the caller stops at the end of the stream
\* ((empty, 0)) and a panic ends the program
ReadPktline ==
    /\ iterState = "idle"
    /\ ret.res # "panic"
    /\ ~(ret.res = "ok" /\ ret.len = 0 /\ ret.data = <<>>)
    /\ LET r == read_pktline(inner, cursor)
       IN  /\ ret' = [res |-> r.res, data |-> r.data, len |-> r.len]
           /\ cursor' = r.cursor
    /\ calls' = calls + 1
    /\ UNCHANGED <<frames, inner, is_data, yielded, iterState, rbVars, packVars>>

NextPkt == ReadPktline

SpecPkt == InitPkt /\ [][NextPkt]_vars

(***************************************************************************)
(* src/src/client.rs: Client::ls_ref on the response body the server sent  *)
(* (SpecLsRef).                                                            *)
(***************************************************************************)
\* whether b is a UTF-8 continuation byte within lo..hi
Cont(b, lo, hi) == b >= lo /\ b <= hi

\* bytes of the UTF-8 sequence a lead byte opens, 0 when it opens none
Utf8Width(b) ==
    IF b < 128 THEN 1
    ELSE IF b >= 194 /\ b <= 223 THEN 2
    ELSE IF b >= 224 /\ b <= 239 THEN 3
    ELSE IF b >= 240 /\ b <= 244 THEN 4
    ELSE 0

\* the range the second byte of a sequence must lie in
SecondLo(b) == IF b = 224 THEN 160 ELSE IF b = 240 THEN 144 ELSE 128
SecondHi(b) == IF b = 237 THEN 159 ELSE IF b = 244 THEN 143 ELSE 191

RECURSIVE IsUtf8(_)
\* String::from_utf8(s).is_ok()
IsUtf8(s) ==
    IF s = <<>> THEN TRUE
    ELSE LET w == Utf8Width(s[1])
         IN  /\ w # 0
             /\ Len(s) >= w
             /\ w >= 2 => Cont(s[2], SecondLo(s[1]), SecondHi(s[1]))
             /\ \A i \in 3..w : Cont(s[i], 128, 191)
             /\ IsUtf8(SubSeq(s, w + 1, Len(s)))

\* result.truncate(40)
HASH_LEN == 40

\* Vec::truncate(n)
Truncate(v, n) == SubSeq(v, 1, Min(Len(v), n))

\* ls_ref on a response body: one read_pktline, truncate, from_utf8
ls_ref(bytes) ==
    LET r == read_pktline(bytes, 0)
        text == Truncate(r.data, HASH_LEN)
    IN  IF r.res = "panic" THEN [res |-> "panic", data |-> <<>>, cursor |-> r.cursor]
        ELSE IF ~IsUtf8(text) THEN [res |-> "Utf8Error", data |-> <<>>, cursor |-> r.cursor]
        ELSE [res |-> "ok", data |-> text, cursor |-> r.cursor]

\* a ref line "<40 hex digits> refs/heads/master\n" (0x3f = 4 + 59 bytes)
HashText == [i \in 1..40 |-> HexDigit(i % 16)]
RefLineF == Frame("normal", <<48, 48, 51, 102>>,
                  HashText \o <<32, 114, 101, 102, 115, 47, 104, 101, 97, 100, 115, 47,
                               109, 97, 115, 116, 101, 114, 10>>)
\* payloads that are no UTF-8, and whose 40th and 41st byte are one character
BadUtf8F   == Frame("normal", <<48, 48, 48, 54>>, <<255, 10>>)
SplitCharF == Frame("normal", <<48, 48, 50, 100>>, [i \in 1..39 |-> 97] \o <<195, 169>>)

LsFrames == {RefLineF, NormalF, FlushF, DelimF, BadHexF, BadUtf8F, SplitCharF}

InitLsRef ==
    /\ frames \in UNION {[1..n -> LsFrames] : n \in 0..MaxFrames}
    /\ inner = Wire(frames)
    /\ cursor = 0
    /\ calls = 0
    /\ ret = NoRet
    /\ is_data = FALSE
    /\ yielded = <<>>
    /\ iterState = "idle"
    /\ NoBuilder
    /\ NoPack

\* Client::ls_ref returning on the response
LsRef ==
    /\ calls = 0
    /\ LET r == ls_ref(inner)
       IN  /\ ret' = [res |-> r.res, data |-> r.data, len |-> Len(r.data)]
           /\ cursor' = r.cursor
    /\ calls' = 1
    /\ UNCHANGED <<frames, inner, iterVars, rbVars, packVars>>

NextLsRef == LsRef

SpecLsRef == InitLsRef /\ [][NextLsRef]_vars

(***************************************************************************)
(* The write functions of src/src/io.rs called on one Vec<u8>, which       *)
(* read_pktline then reads back (SpecCodec).  ops records the writes.      *)
(***************************************************************************)
\* a text of n bytes
TextOf(n) == [i \in 1..n |-> 97]

\* the longest text whose prefix with write_pktline_nolf still has four digits
LongLen == EOF_LEN - 5

\* the texts written: empty, one byte, a two-byte character, "test", and
\* texts whose length + 4 is 0x10 and 0x100
ShortTexts == {<<>>, <<97>>, <<195, 169>>, <<116, 101, 115, 116>>,
               TextOf(12), TextOf(252)}

\* the longest texts (the second one byte too long for write_pktline_nolf as
\* well) are written into the empty buffer only, and nothing after them
Texts == ShortTexts \cup (IF ops = <<>> THEN {TextOf(LongLen), TextOf(LongLen + 1)} ELSE {})

InitCodec ==
    /\ frames = <<>>
    /\ inner = <<>>
    /\ cursor = 0
    /\ calls = 0
    /\ ret = NoRet
    /\ is_data = FALSE
    /\ yielded = <<>>
    /\ iterState = "idle"
    /\ NoBuilder
    /\ NoPack

\* a write function called with its argument: the bytes are appended
Written(name, arg, bytes) ==
    /\ calls = 0
    /\ Len(ops) < MaxWrites
    /\ Len(inner) < LongLen
    /\ inner' = inner \o bytes
    /\ ops' = Append(ops, Op(name, arg))
    /\ UNCHANGED <<frames, cursor, calls, ret, iterVars, packVars>>
    /\ UNCHANGED <<auto_packet, rb_inner, delimeter_written, flush_written, rbState>>

WritePktline == \E s \in Texts : Written("write_pktline", s, write_pktline(s))

WritePktlineNolf ==
    \E s \in Texts : Written("write_pktline_nolf", s, write_pktline_nolf(s))

WritePacket == \E n \in 0..2 : Written("write_packet", <<n>>, write_packet(n))

NextCodec ==
    \/ WritePktline
    \/ WritePktlineNolf
    \/ WritePacket
    \/ ReadPktline

SpecCodec == InitCodec /\ [][NextCodec]_vars

(***************************************************************************)
(* Specification SpecIter: a consumer pulling PktIter until None.          *)
(***************************************************************************)
InitIter ==
    /\ frames \in FrameSeqs
    /\ inner = Wire(frames)
    /\ cursor = 0
    /\ calls = 0
    /\ ret = NoRet
    /\ is_data = PktIterNew
    /\ yielded = <<>>
    /\ iterState = "running"
    /\ NoBuilder
    /\ NoPack

\* PktIter::next
PktIterNext ==
    /\ iterState = "running"
    /\ LET r == read_pktline(inner, cursor)
           c == Classify(r.data, r.len, is_data)
       IN  /\ cursor' = r.cursor
           /\ IF r.res = "panic" \/ c.out = "panic"
              THEN /\ iterState' = "panicked"
                   /\ UNCHANGED <<is_data, yielded>>
              ELSE IF c.out = "none"
              THEN /\ iterState' = "ended"
                   /\ UNCHANGED <<is_data, yielded>>
              ELSE /\ iterState' = "running"
                   /\ is_data' = c.is_data
                   /\ yielded' = Append(yielded, c.msg)
    /\ calls' = calls + 1
    /\ UNCHANGED <<frames, inner, ret, rbVars, packVars>>

NextIter == PktIterNext

SpecIter == InitIter /\ [][NextIter]_vars

(***************************************************************************)
(* Properties of read_pktline (SpecPkt).                                   *)
(***************************************************************************)
\* the frame the last call was positioned at, when the stream had one left
LastFrame == frames[calls]
ReadAFrame == calls >= 1 /\ calls <= Len(frames)

\* bytes of the stream before frame i
FrameStart(i) == Len(Wire(SubSeq(frames, 1, i - 1)))

SentinelLen(k) == IF k = "flush" THEN 0 ELSE IF k = "delim" THEN 1 ELSE 2
IsSentinel(f) == f.k \in {"flush", "delim", "rend"}

\* C4 as stated: read_pktline positioned at a sentinel frame 0000, 0001 or
\* 0002 returns length 0, 1 or 2 together with an empty payload.
C4_EmptyPayload ==
    (ReadAFrame /\ IsSentinel(LastFrame))
        => (ret.res = "ok" /\ ret.len = SentinelLen(LastFrame.k) /\ ret.data = <<>>)

\* C4 amended: read_pktline positioned at a sentinel frame 0000, 0001 or 0002
\* returns length 0, 1 or 2 together with the four ASCII digits of the prefix
\* as payload, and has consumed exactly the four prefix bytes.
C4_SentinelPayload ==
    (ReadAFrame /\ IsSentinel(LastFrame))
        => /\ ret.res = "ok"
           /\ ret.len = SentinelLen(LastFrame.k)
           /\ ret.data = <<48, 48, 48, 48 + SentinelLen(LastFrame.k)>>
           /\ cursor = FrameStart(calls) + 4

C4_Witness ==
    /\ ReadAFrame
    /\ calls >= 2
    /\ LastFrame.k = "rend"
    /\ frames[1].k = "flush"
    /\ ret.len = 2

\* C5 as stated: read_pktline returns a MalformedFrame error value (neither a
\* frame nor a panic) when the prefix decodes to 3 or is no hexadecimal.
C5_MalformedFrame ==
    (ReadAFrame /\ LastFrame.k \in {"len3", "badhex"}) => ret.res = "err"

(***************************************************************************)
(* Properties of PktIter (SpecIter).  Every call of next that returns      *)
(* Some(..) consumed one frame, so yielded[i] is the message of frames[i]. *)
(***************************************************************************)
AtFrame(k) ==
    /\ iterState = "running"
    /\ calls < Len(frames)
    /\ frames[calls + 1].k = k

Yields(m) ==
    /\ yielded' = Append(yielded, m)
    /\ iterState' = "running"

\* C6 as stated: once a ResponseEnd frame has been read, no further message
\* is yielded (the ResponseEnd message itself is allowed to be the last).
C6_ResponseEndTerminates ==
    \A i \in 1..Len(frames) :
        (i <= calls /\ frames[i].k = "rend") => Len(yielded) <= i

\* C6 amended: a ResponseEnd frame (0002) read outside side-band mode yields
\* Message::ResponseEnd and does not terminate the iteration: the iterator
\* stays running, positioned at the frame that follows.
C6_ResponseEndYielded ==
    [][(AtFrame("rend") /\ ~is_data)
          => (Yields(Msg("ResponseEnd", <<>>)) /\ cursor' = cursor + 4
              /\ is_data' = is_data)]_vars

C6_Witness ==
    \E i \in 1..Len(yielded) :
        /\ yielded[i].t = "ResponseEnd"
        /\ i < Len(yielded)
        /\ yielded[i + 1].t = "Normal"

PackKinds == {"PackData", "PackProgress", "PackError"}

\* C8: each PackData, PackProgress or PackError message yielded is preceded,
\* earlier in the same iteration, by a PackStart message.
C8_PackStartFirst ==
    \A i \in 1..Len(yielded) :
        yielded[i].t \in PackKinds
            => \E j \in 1..(i - 1) : yielded[j].t = "PackStart"

C8_Witness ==
    /\ Len(yielded) = 3
    /\ yielded[2].t = "PackStart"
    /\ yielded[3].t = "PackError"

FirstPack(i) ==
    /\ frames[i].k = "pack"
    /\ \A j \in 1..(i - 1) : frames[j].k # "pack"

\* C9: PackStart is yielded at most once: for the first frame whose payload
\* is packfile\n (read outside side-band mode), and for no later frame with
\* that payload.
C9_PackStartOnce ==
    /\ Cardinality({i \in 1..Len(yielded) : yielded[i].t = "PackStart"}) <= 1
    /\ \A i \in 1..Len(yielded) : (yielded[i].t = "PackStart") <=> FirstPack(i)

C9_Witness ==
    /\ Len(frames) = 3
    /\ calls = 3
    /\ frames[1].k = "pack"
    /\ frames[3].k = "pack"
    /\ Len(yielded) = 2
    /\ iterState = "panicked"

RECURSIVE PackDataBytes(_)
\* the payloads of the PackData messages of ms, concatenated in order
PackDataBytes(ms) ==
    IF ms = <<>> THEN <<>>
    ELSE (IF Head(ms).t = "PackData" THEN Head(ms).data ELSE <<>>)
         \o PackDataBytes(Tail(ms))

\* frames[i] is a side-band channel-1 frame: a frame with channel byte 1
\* that comes after the first packfile frame
SideBandCh1(i) ==
    /\ frames[i].k = "ch1"
    /\ \E j \in 1..(i - 1) : frames[j].k = "pack"

RECURSIVE Ch1Wire(_)
\* payloads, less the channel byte, of the side-band channel-1 frames among
\* the first n frames, in wire order
Ch1Wire(n) ==
    IF n = 0 THEN <<>>
    ELSE Ch1Wire(n - 1) \o (IF SideBandCh1(n) THEN Tail(frames[n].payload) ELSE <<>>)

\* C10: the concatenation of the PackData payloads equals, in wire order,
\* the payloads of the side-band channel-1 frames less their channel byte
\* (of the frames read so far, and of the whole stream once next returned
\* None); no other byte appears in it.
C10_PackDataIsChannel1 ==
    /\ PackDataBytes(yielded) = Ch1Wire(Len(yielded))
    /\ iterState = "ended" => PackDataBytes(yielded) = Ch1Wire(Len(frames))

C10_Witness ==
    /\ iterState = "ended"
    /\ frames = <<PackF, Ch1bF, CutCh1F>>
    /\ PackDataBytes(yielded) = <<75, 1, 80>>

(***************************************************************************)
(* Properties of RequestBuilder (SpecBuilder).                             *)
(***************************************************************************)
RECURSIVE FramesFrom(_, _)
\* the pkt-lines of bytes from cur on, as a receiver reads them
FramesFrom(bytes, cur) ==
    IF cur >= Len(bytes) THEN <<>>
    ELSE LET r == read_pktline(bytes, cur)
         IN  <<[data |-> r.data, len |-> r.len]>> \o FramesFrom(bytes, r.cursor)

ArgumentOps == {i \in 1..Len(ops) : ops[i].op \in {"argument", "want", "have"}}
NoPacketCall == \A i \in 1..Len(ops) : ops[i].op # "packet"
FirstOf(S) == CHOOSE i \in S : \A j \in S : i <= j

\* C1 as stated: with auto_packet on, the first argument call (argument, want
\* or have) writes a Delim packet immediately before its pkt-line and no
\* later one writes another, so the body holds exactly one automatic Delim,
\* between the capability lines and the argument lines.  (Stated for bodies
\* built without explicit packet calls; the two pre-written capability lines
\* and one line per earlier call precede the first argument.)
C1_AutoDelimOnce ==
    (auto_packet /\ NoPacketCall /\ ArgumentOps # {})
        => LET a  == FirstOf(ArgumentOps)
               fs == FramesFrom(rb_inner, 0)
           IN  /\ Cardinality({i \in 1..Len(fs) : fs[i].len = 1}) = 1
               /\ Len(fs) >= a + 3
               /\ fs[a + 2].len = 1
               /\ fs[a + 3].data = ops[a].text \o <<10>>

\* C2 as stated: with auto_packet on, when no Flush was emitted by the calls
\* made, build() appends a Flush packet: the returned body ends with 0000.
C2_AutoFlush ==
    (rbState = "built" /\ auto_packet
        /\ \A i \in 1..Len(ops) : ~(ops[i].op = "packet" /\ ops[i].text = "Flush"))
        => /\ Len(rb_inner) >= 4
           /\ SubSeq(rb_inner, Len(rb_inner) - 3, Len(rb_inner)) = <<48, 48, 48, 48>>

(***************************************************************************)
(* Properties of Pack::from_reader (SpecPack).                             *)
(***************************************************************************)
\* start of the zlib stream of the entry being decoded
StreamStart == LayoutStart(pack, done + 1) + Len(CurStream.head) + Len(CurStream.suffix)

\* C3: whenever the decoder starts reading an entry header, and when it
\* starts trailer verification, the reader's cursor is at the running offset,
\* which is 12 plus the header + suffix + compressed length of all earlier
\* objects; inside an object's inflate loop the cursor is at the entry start
\* + header bytes + suffix bytes + the bytes the inflater consumed, and when
\* the loop ends that is the start of the next entry, however far the block
\* reads went.
C3_CursorAtOffset ==
    /\ pc = "entry"
          => /\ reader_pos = offset
             /\ offset = LayoutStart(pack, done + 1)
    /\ pc \in {"read", "drain", "tail"}
          => /\ entry.object_size = Len(CurStream.head) + Len(CurStream.suffix)
             /\ entry.compressed_length = state.zin
             /\ reader_pos = StreamStart + entry.compressed_length
    /\ pc = "tail" => reader_pos = LayoutStart(pack, done + 2)

\* two objects decoded, the first in several block reads, the second with a
\* block read that ran past its 16 stream bytes into the checksum
C3_Witness ==
    /\ pc = "entry"
    /\ pack.entries = <<BigE, OfsE>>
    /\ done = 2
    /\ reader_pos = 12 + 9003 + 19

\* the inflater reported Done and the data cannot be made to equal the
\* declared size: too many bytes, or too few with nothing left to drain
DoneMismatch ==
    /\ pc = "tail"
    /\ state.last_status = "Done"
    /\ \/ entry.data.len > entry.decompressed_length
       \/ entry.data.len < entry.decompressed_length /\ state.avail = 0

\* C11: when an object's stream reports Done and the decompressed data cannot
\* be made to equal the header-declared size, from_reader's next step returns
\* an InvalidObject error, and it does get there: it neither aborts nor stays
\* in the drain loop forever.
C11_MismatchIsInvalidObject ==
    /\ [][DoneMismatch => pc' = "err" /\ outcome' = "InvalidObject"]_vars
    /\ [](DoneMismatch => <>(outcome = "InvalidObject"))

\* the size the entry header at an object's offset declares
DeclaredSize(o) == UsizeValue(vint_from_reader(pack, o.offset, TRUE).bits)

\* C12: in every Pack returned Ok, every object's data length equals the
\* decompressed size declared in the entry header at that object's offset.
C12_DataLenIsDeclared ==
    outcome = "Ok"
        => \A h \in DOMAIN result : result[h].data.len = DeclaredSize(result[h])

\* an accepted pack of two objects, one of them inflated over many turns
C12_Witness ==
    /\ outcome = "Ok"
    /\ pack.entries = <<BigE, CommitE>>
    /\ Cardinality(DOMAIN result) = 2
    /\ \E h \in DOMAIN result : result[h].data.len = 40000

\* the trailer was read in full: the 20 bytes after the last object
TrailerRead == pc \in {"ok", "err"} /\ done = objects /\ reader_pos = offset + 20

\* C13: from_reader returns Ok only if the SHA-1 of the bytes [0, offset),
\* offset being the position after the last object, equals the 20 bytes that
\* follow, and then the returned pack's sha1 field is those 20 bytes; when
\* they differ it returns the checksum error and no Pack.
C13_ChecksumVerified ==
    /\ outcome = "Ok"
          => /\ TrailerRead
             /\ offset = ObjectsEnd(pack)
             /\ pack.sumOk
             /\ PackSha1(pack, offset) = ChecksumAt(pack, offset)
             /\ sha1 = ChecksumAt(pack, offset)
    /\ TrailerRead /\ PackSha1(pack, offset) # ChecksumAt(pack, offset)
          => /\ outcome = "InvalidHash"
             /\ sha1 = <<>>

\* a pack of two objects accepted with its checksum
C13_Witness ==
    /\ outcome = "Ok"
    /\ Len(pack.entries) = 2
    /\ sha1 = <<"sha1", ObjectsEnd(pack)>>

\* a pack of two objects refused for its checksum alone
C13_WitnessMismatch ==
    /\ outcome = "InvalidHash"
    /\ Len(pack.entries) = 2
    /\ done = 2

\* the kind code of an entry: bits 4..6 of its first header byte
KindCode(e) == (e.head[1] \div 16) % 8

\* the kind each valid code stands for
KindOfCode(code) ==
    CASE code = 1 -> "Commit"
      [] code = 2 -> "Tree"
      [] code = 3 -> "Blob"
      [] code = 4 -> "Tag"
      [] code = 6 -> "OfsDelta"
      [] code = 7 -> "RefDelta"
      [] OTHER -> "None"

\* from_reader is about to read an entry header that carries kind code 0 or 5
AtInvalidKind ==
    /\ pc = "entry"
    /\ done < objects
    /\ KindCode(CurStream) \in {0, 5}

\* C14: an entry header with kind code 0 or 5 makes from_reader return
\* InvalidObjectType and no Pack, however many objects were decoded before
\* it; a pack holding such an entry is never accepted; codes 1, 2, 3, 4, 6, 7
\* are decoded as Commit, Tree, Blob, Tag, OfsDelta, RefDelta.
C14_InvalidKindRefused ==
    /\ [][AtInvalidKind => /\ pc' = "err"
                           /\ outcome' = "InvalidObjectType"
                           /\ sha1' = <<>>]_vars
    /\ [](outcome = "Ok"
            => \A i \in 1..Len(pack.entries) : KindCode(pack.entries[i]) \notin {0, 5})
    /\ [](pc \in {"read", "drain", "tail"}
            => /\ KindCode(CurStream) \in {1, 2, 3, 4, 6, 7}
               /\ entry.object_type[1] = KindOfCode(KindCode(CurStream)))

\* kind code 5 refused after an object was decoded and stored
C14_Witness ==
    /\ outcome = "InvalidObjectType"
    /\ pack.entries = <<CommitE, Kind5E>>
    /\ done = 1
    /\ Cardinality(DOMAIN result) = 1

(***************************************************************************)
(* Properties of the pkt-line codec (SpecPkt), continued.                  *)
(***************************************************************************)
\* the value of a frame's four-digit length prefix
DeclaredLen(f) == FromStrRadix16(f.prefix)

\* C15: whenever read_pktline returns (payload, length) with length >= 4,
\* the payload has exactly length - 4 bytes and the reader has advanced by
\* exactly length bytes, also when the stream ends inside the payload; each
\* frame read comes back with its payload and declared length, in wire order.
C15_ExactPayload ==
    (ReadAFrame /\ ret.res = "ok" /\ ret.len >= 4)
        => /\ Len(ret.data) = ret.len - 4
           /\ cursor = FrameStart(calls) + ret.len
           /\ ret.len = DeclaredLen(LastFrame)
           /\ ret.data = LastFrame.payload

\* the first calls writes were all write_pktline_nolf of at most LongLen bytes
NolfUpTo(n) ==
    \A i \in 1..n : /\ ops[i].op = "write_pktline_nolf"
                     /\ Len(ops[i].text) <= LongLen

\* C16: read_pktline applied to what write_pktline_nolf(s) wrote returns
\* exactly (s, len(s) + 4) for every s of at most 65531 bytes, the empty
\* string included; and so for each of several such writes in a row.
C16_RoundTrip ==
    (calls >= 1 /\ calls <= Len(ops) /\ NolfUpTo(calls))
        => /\ ret.res = "ok"
           /\ ret.data = ops[calls].text
           /\ ret.len = Len(ops[calls].text) + 4

\* the longest text read back
C16_Witness ==
    /\ calls = 1
    /\ Len(ops) = 1
    /\ NolfUpTo(1)
    /\ Len(ops[1].text) = 65531
    /\ ret.len = 65535

\* the empty text read back after another text
C16_WitnessEmpty ==
    /\ calls = 2
    /\ Len(ops) = 2
    /\ NolfUpTo(2)
    /\ ops[2].text = <<>>
    /\ ret = [res |-> "ok", data |-> <<>>, len |-> 4]

\* the four lowercase hex digits of n (of its low 16 bits)
FourHex(n) ==
    <<HexDigit((n \div 4096) % 16), HexDigit((n \div 256) % 16),
      HexDigit((n \div 16) % 16), HexDigit(n % 16)>>

\* n in hex, zero padded to four digits: five digits from 0x10000 on
PaddedHex(n) ==
    IF n <= 65535 THEN FourHex(n) ELSE <<HexDigit(n \div 65536)>> \o FourHex(n % 65536)

\* the number a write puts in front, and what follows it
PrefixOf(o) ==
    IF o.op = "write_pktline" THEN Len(o.text) + 5
    ELSE IF o.op = "write_pktline_nolf" THEN Len(o.text) + 4
    ELSE o.text[1]

BodyOf(o) ==
    IF o.op = "write_pktline" THEN o.text \o <<10>>
    ELSE IF o.op = "write_pktline_nolf" THEN o.text
    ELSE <<>>

C17_WitnessLong ==
    /\ Len(ops) = 1
    /\ ops[1].op = "write_pktline"
    /\ Len(ops[1].text) = LongLen
    /\ SubSeq(inner, 1, 5) = <<49, 48, 48, 48, 48>>
    /\ Len(inner) = 5 + LongLen + 1

(***************************************************************************)
(* Properties of RequestBuilder (SpecBuilder), continued.                  *)
(***************************************************************************)
\* this step is a call of packet by the user, and the kind it was called with
PacketCalled == Len(ops') = Len(ops) + 1 /\ ops'[Len(ops')].op = "packet"
PacketKind == ops'[Len(ops')].text

\* the sentinel of a kind, as it stands on the wire
SentinelBytes(kind) ==
    IF kind = "Flush" THEN <<48, 48, 48, 48>>
    ELSE IF kind = "Delimeter" THEN <<48, 48, 48, 49>>
    ELSE <<48, 48, 48, 50>>

\* packet accepts exactly the kinds in accepted: it writes their sentinel and
\* the builder stays usable; any other kind is refused with nothing written
PacketAccepts(accepted) ==
    PacketCalled
        => IF PacketKind \in accepted
           THEN rb_inner' = rb_inner \o SentinelBytes(PacketKind) /\ rbState' = rbState
           ELSE rb_inner' = rb_inner /\ rbState' = "panicked"

\* C18 as stated: packet accepts only the Flush and Delim kinds; every other
\* Message kind, ResponseEnd included, is rejected and leaves nothing written.
C18_FlushDelimOnly == [][PacketAccepts({"Flush", "Delimeter"})]_vars

\* C18 amended: packet accepts the Flush, Delim and ResponseEnd kinds and
\* writes 0000, 0001 or 0002; every other Message kind is rejected by a panic
\* and leaves nothing written.
C18_SentinelKindsOnly == [][PacketAccepts({"Flush", "Delimeter", "ResponseEnd"})]_vars

\* packet(ResponseEnd) wrote 0002 after a command line
C18_Witness ==
    /\ Len(ops) = 2
    /\ ops[1].op = "command"
    /\ ops[2].op = "packet"
    /\ ops[2].text = "ResponseEnd"
    /\ rbState = "building"
    /\ SubSeq(rb_inner, Len(rb_inner) - 3, Len(rb_inner)) = <<48, 48, 48, 50>>

(***************************************************************************)
(* Properties of Client::ls_ref (SpecLsRef).                               *)
(***************************************************************************)
\* the Normal frames of the response: those that carry a payload
NormalAt == {i \in 1..Len(frames) : frames[i].k = "normal"}

\* C19: ls_ref returns the first 40 characters of the payload of the first
\* Normal frame of the response; when the response holds no Normal frame (it
\* starts with a Flush or is empty) it fails with InvalidRefHash.  (Responses
\* on which ls_ref stops at a prefix that is no hex number or at text that is
\* no UTF-8 are left aside.)
C19_FirstNormalOrInvalidRefHash ==
    (calls = 1 /\ ret.res \notin {"panic", "Utf8Error"})
        => IF NormalAt = {}
           THEN ret.res = "InvalidRefHash"
           ELSE LET i == CHOOSE j \in NormalAt : \A k \in NormalAt : j <= k
                IN  /\ ret.res = "ok"
                    /\ ret.data = SubSeq(frames[i].payload, 1, Min(40, Len(frames[i].payload)))

\* the name each of the four plain kinds is hashed under
NameOfKind(kind) ==
    CASE kind = "Commit" -> "commit"
      [] kind = "Tree" -> "tree"
      [] kind = "Blob" -> "blob"
      [] kind = "Tag" -> "tag"

RECURSIVE DecVal(_)
\* the number a string of decimal digits stands for
DecVal(ds) == IF ds = <<>> THEN 0 ELSE 10 * DecVal(SubSeq(ds, 1, Len(ds) - 1)) + (ds[Len(ds)] - 48)

\* ds is n in decimal: digits only, no leading zero
IsDecimalOf(ds, n) ==
    /\ Len(ds) >= 1
    /\ \A i \in 1..Len(ds) : ds[i] >= 48 /\ ds[i] <= 57
    /\ Len(ds) > 1 => ds[1] # 48
    /\ DecVal(ds) = n

\* h is the SHA-1 of: the kind's name, one space, the decimal length of data,
\* one NUL byte, data
IsGitHash(h, kind, data) ==
    /\ h[1] = NameOfKind(kind)
    /\ h[2] = 32
    /\ IsDecimalOf(h[3], data.len)
    /\ h[4] = 0
    /\ h[5] = data

\* C20: in an accepted pack every Commit, Tree, Blob or Tag object is stored
\* under the SHA-1 of kind_name, one space, the decimal length of its data,
\* one NUL byte and its data, and offsets records that hash for its offset;
\* so it is for the entry at every offset of the pack that holds such a kind.
C20_KeyIsGitHash ==
    outcome = "Ok"
        => /\ \A h \in DOMAIN result :
                 result[h].object_type[1] \in {"Commit", "Tree", "Blob", "Tag"}
                     => /\ IsGitHash(h, result[h].object_type[1], result[h].data)
                        /\ result[h].offset \in DOMAIN offsets
                        /\ offsets[result[h].offset] = h
           /\ \A i \in 1..Len(pack.entries) :
                 KindCode(pack.entries[i]) \in 1..4
                     => LET e == pack.entries[i]
                            at == LayoutStart(pack, i)
                        IN  /\ at \in DOMAIN offsets
                            /\ offsets[at] \in DOMAIN result
                            /\ IsGitHash(offsets[at], KindOfCode(KindCode(e)),
                                         [len |-> e.dlen, content |-> e.content])

\* a blob and a tree of the same bytes, stored under two keys
C20_Witness ==
    /\ outcome = "Ok"
    /\ pack.entries = <<BlobE, TreeE>>
    /\ Cardinality(DOMAIN result) = 2
    /\ offsets[12][3] = <<56>>

(***************************************************************************)
(* Properties of PktIter (SpecIter), continued.                            *)
(***************************************************************************)
\* the frame the next call of PktIter::next reads
NextRead == read_pktline(inner, cursor)

\* next is called in side-band mode on a frame of length > 0 whose first
\* payload byte is none of 1, 2, 3, or that has no payload byte
AtViolation ==
    /\ iterState = "running"
    /\ is_data
    /\ NextRead.res = "ok"
    /\ NextRead.len > 0
    /\ NextRead.data = <<>> \/ NextRead.data[1] \notin {1, 2, 3}

\* C21: in side-band mode a frame of length > 0 whose first payload byte is
\* not 1, 2 or 3 (a Delim, a ResponseEnd, a second packfile frame, a frame of
\* length 4 with no payload) yields no Message, and the frame without a
\* payload byte does not crash the iterator on the access to its first byte.
C21_ViolationHandled ==
    [][AtViolation => /\ yielded' = yielded
                      /\ NextRead.data = <<>> => iterState' # "panicked"]_vars

\* every message yielded after a PackStart is of a kind in allowed
AfterPackStart(allowed) ==
    \A i \in 1..Len(yielded) :
        yielded[i].t = "PackStart"
            => \A j \in (i + 1)..Len(yielded) : yielded[j].t \in allowed

AtEndOfData ==
    /\ pc = "read"
    /\ reader_pos >= SrcLen(pack)
    /\ state.last_status = "NeedsMoreInput"
    /\ state.avail = 0

\* C23: from_reader returns, Ok or Err, on every finite source; when the
\* source is at its end while an object's inflater still reports
\* NeedsMoreInput, it returns an error.
C23_Terminates ==
    /\ <>(pc \in {"ok", "err"})
    /\ [](AtEndOfData => <>(pc = "err"))

\* Pack::offset finds, at the offset of entry i, the object decoded from it
FoundAt(i) ==
    LET e == pack.entries[i]
        k == LayoutStart(pack, i)
        o == PackOffset(k)
    IN  /\ o.some
        /\ o.object.offset = k
        /\ o.object.object_type[1] = KindOfCode(KindCode(e))
        /\ o.object.data = [len |-> e.dlen, content |-> e.content]
        /\ o.object.compressed_length = e.clen

\* C24: a Pack returned Ok holds exactly as many objects as the header's
\* object count, and Pack::offset(k) returns, for the offset k of every entry,
\* the object decoded at k, also when two entries have the same kind and data.
C24_TableComplete ==
    outcome = "Ok"
        => /\ Cardinality(DOMAIN result) = objects
           /\ \A i \in 1..Len(pack.entries) : FoundAt(i)

\* this step is one call of the drain loop of the HasMoreOutput arm, and the
\* bytes it produced
DrainCall == pc = "drain" /\ entry' # entry
DrainProduced == entry'.data.len - entry.data.len

\* C25: in the HasMoreOutput arm the decoder goes on draining for as long as
\* a drain call fills the output buffer it was given and goes back to reading
\* input only after a call that produced less than that buffer holds; the
\* buffers offered to the inflater keep the sizes INPUT_BUFFER_SIZE and
\* OUTPUT_BUFFER_SIZE over all iterations and objects.
C25_DrainUntilShort ==
    /\ [][DrainCall => /\ DrainProduced = output_buf => pc' = "drain"
                       /\ pc' = "read" => DrainProduced < output_buf]_vars
    /\ [](pc \in {"entry", "read", "drain", "tail"}
            => /\ input_buf = INPUT_BUFFER_SIZE
               /\ output_buf = OUTPUT_BUFFER_SIZE)

(***************************************************************************)
(* Properties of RequestBuilder (SpecBuilder), continued.                  *)
(***************************************************************************)
IsFlushCall(o) == o.op = "packet" /\ o.text = "Flush"

\* packet(Flush) was called at some point / was the last call
FlushCalled == \E i \in 1..Len(ops) : IsFlushCall(ops[i])
FlushCalledLast == ops # <<>> /\ IsFlushCall(ops[Len(ops)])

\* the last n bytes of the body
BodyTail(n) == SubSeq(rb_inner, Len(rb_inner) - n + 1, Len(rb_inner))

\* C26: with auto_packet on, once packet(Flush) was called build() appends
\* nothing; a body whose last call was packet(Flush) ends with exactly one
\* 0000 (the bytes before it are another 0000 only if the call before was
\* packet(Flush) too).
C26_NoSecondFlush ==
    /\ [][(auto_packet /\ FlushCalled /\ rbState = "building" /\ rbState' = "built")
            => rb_inner' = rb_inner]_vars
    /\ []((auto_packet /\ FlushCalledLast /\ rbState = "built")
            => /\ BodyTail(4) = <<48, 48, 48, 48>>
               /\ ~(Len(ops) >= 2 /\ IsFlushCall(ops[Len(ops) - 1]))
                      => SubSeq(BodyTail(8), 1, 4) # <<48, 48, 48, 48>>)

\* a fetch command, packet(Flush), then build, with auto_packet on
C26_Witness ==
    /\ auto_packet
    /\ rbState = "built"
    /\ Len(ops) = 2
    /\ ops[1].op = "command"
    /\ IsFlushCall(ops[2])
    /\ BodyTail(5) = <<10, 48, 48, 48, 48>>

\* ---- C27 ----
\* the header bytes the call was given, and whether the reader held all of them
VintHead == pack.entries[1].head
VintReturned == pc \in {"returned", "panic"} /\ calls = 1 /\ pack.entries # <<>>
HeadComplete == pack.missing = 20

\* the first byte without the high bit: where reading has to stop
StopAt(h) == CHOOSE i \in 1..Len(h) : h[i] < 128 /\ \A j \in 1..(i - 1) : h[j] >= 128

\* the size as the sum the header encodes, as the set of its one-bits: the low
\* nibble at bit 0, the k-th continuation byte's low seven bits at 4 + 7 * (k - 1)
EncodedSize(h) ==
    BitsOf(h[1] % 16)
      \cup UNION {{b + 4 + 7 * (k - 1) : b \in BitsOf(h[k + 1] % 128)} :
                     k \in 1..(StopAt(h) - 1)}

\* C27: for every entry header the reader holds in full, vint_from_reader
\* returns the kind in bits 6..4 of the first byte, the size made of the low
\* nibble and the continuation bytes' low seven bits at shifts 4, 11, 18, ...,
\* and the number of bytes up to the first one without the high bit
C27_VintDecodes ==
    (VintReturned /\ HeadComplete)
        => /\ ret.res = "ok"
           /\ ret.object_type = (VintHead[1] \div 16) % 8
           /\ ret.bits = EncodedSize(VintHead)
           /\ ret.used = StopAt(VintHead)
           /\ reader_pos = 12 + StopAt(VintHead)

\* ---- C28 ----
\* this step is a call of write_pktline or write_pktline_nolf, and the frame
\* it appended
WroteFrame ==
    /\ Len(ops') = Len(ops) + 1
    /\ ops'[Len(ops')].op \in {"write_pktline", "write_pktline_nolf"}
AddedFrame == SubSeq(inner', Len(inner) + 1, Len(inner'))

\* C28: every frame written by write_pktline or write_pktline_nolf starts with
\* exactly four hex digits (the text follows at once) whose value is the byte
\* count of the whole frame, whatever the text; no text yields five digits.
C28_PrefixIsFrameLength ==
    [][WroteFrame
         => /\ Len(AddedFrame) = 4 + Len(BodyOf(ops'[Len(ops')]))
            /\ SubSeq(AddedFrame, 5, Len(AddedFrame)) = BodyOf(ops'[Len(ops')])
            /\ FromStrRadix16(SubSeq(AddedFrame, 1, 4)) = Len(AddedFrame)]_vars
====
